---- MODULE Spec2Model ----
(***************************************************************************)
(* A model of SizeSpectrum.py: remove_background and calc_size_spectrum.   *)
(*                                                                         *)
(* Numbers.  numpy's float64 values are modelled as exact fractions        *)
(* [n, d] with d > 0, extended with the three IEEE values the code can     *)
(* produce by dividing by zero: +Inf = [1, 0], -Inf = [-1, 0] and          *)
(* NaN = [0, 0].  Rounding error is not modelled.                          *)
(*                                                                         *)
(* Images.  An image is a single row of pixels (shape (1, W)) stored as a  *)
(* sequence of runs [v, n]: n consecutive pixels of the integer value v.   *)
(* Two pixels are neighbours when they are adjacent in the row.  A flat    *)
(* image of any shape is one run: it has a single connected component.     *)
(***************************************************************************)
EXTENDS Integers, Sequences, FiniteSets

\* ------------------------------------------------------------------ bounds
\* widest input image, in pixels
MaxPixels == 3
\* most runs of equal pixels in an image
MaxRuns == 2
\* largest step and end arguments
MaxStep == 2
MaxEnd == 5

\* ------------------------------------------------- float64 as a fraction
RECURSIVE GCD(_, _)
GCD(a, b) == IF b = 0 THEN a ELSE GCD(b, a % b)

Abs(a) == IF a < 0 THEN -a ELSE a
Sgn(a) == IF a < 0 THEN -1 ELSE IF a > 0 THEN 1 ELSE 0

Norm(n, d) ==
    IF d = 0 THEN [n |-> Sgn(n), d |-> 0]
    ELSE LET g == GCD(Abs(n), Abs(d))
         IN  [n |-> Sgn(d) * (n \div g), d |-> Abs(d) \div g]

Num(k) == [n |-> k, d |-> 1]
NaN == [n |-> 0, d |-> 0]
IsNum(x) == x.d # 0

RNeg(a) == [n |-> -a.n, d |-> a.d]
RMul(a, b) == Norm(a.n * b.n, a.d * b.d)
RInv(a) == Norm(a.d, a.n)
RDiv(a, b) == RMul(a, RInv(b))
RAdd(a, b) ==
    IF a.d = 0 /\ b.d = 0 THEN (IF a.n = b.n THEN a ELSE NaN)
    ELSE Norm(a.n * b.d + b.n * a.d, a.d * b.d)
RSub(a, b) == RAdd(a, RNeg(b))
RLess(a, b) == IsNum(a) /\ IsNum(b) /\ a.n * b.d < b.n * a.d

\* np.round: round half to even, of the fraction n/d with n >= 0, d > 0
RoundHalfEven(n, d) ==
    LET q == n \div d
        r == n % d
    IN  IF 2 * r < d THEN q
        ELSE IF 2 * r > d THEN q + 1
        ELSE IF q % 2 = 0 THEN q ELSE q + 1

\* ------------------------------------------------------------------ images
\* the pixel values of the input images: signed, as the data model allows
PixVals == (0 - 1)..1

RECURSIVE SumRuns(_, _)
SumRuns(s, k) == IF k = 0 THEN 0 ELSE SumRuns(s, k - 1) + s[k].v * s[k].n

RECURSIVE CountRuns(_, _)
CountRuns(s, k) == IF k = 0 THEN 0 ELSE CountRuns(s, k - 1) + s[k].n

\* img.sum()
ImgSum(s) == SumRuns(s, Len(s))
\* img.size
ImgCount(s) == CountRuns(s, Len(s))
\* img.mean()
ImgMean(s) == Norm(ImgSum(s), ImgCount(s))

Levels(s) == {s[k].v : k \in 1..Len(s)}
MinOf(S) == CHOOSE x \in S : \A y \in S : x <= y
MaxOf(S) == CHOOSE x \in S : \A y \in S : x >= y

\* every image of `count` pixels with values in lo..hi, at most MaxRuns runs
\* (neighbouring runs differ in value, so each image is listed once)
AnyImage(count, lo, hi) ==
    UNION {{s \in [1..m -> [v : lo..hi, n : 1..count]] :
                /\ ImgCount(s) = count
                /\ \A k \in 1..(m - 1) : s[k].v # s[k + 1].v}
           : m \in 1..MaxRuns}

\* ------------------------------------------- skimage primitives, as called
\* np.pi.  355/113 decides every comparison "pixel count < pi * (d/2)^2" made
\* here as pi does: no fraction with the small denominators that occur lies
\* between pi and 355/113.
Pi == [n |-> 355, d |-> 113]

RECURSIVE LeftEnd(_, _, _)
LeftEnd(s, k, h) == IF k > 1 /\ s[k - 1].v >= h THEN LeftEnd(s, k - 1, h) ELSE k

RECURSIVE RightEnd(_, _, _)
RightEnd(s, k, h) ==
    IF k < Len(s) /\ s[k + 1].v >= h THEN RightEnd(s, k + 1, h) ELSE k

\* pixel count of the connected component of {pixels >= h} that holds run k
CompArea(s, k, h) ==
    CountRuns(s, RightEnd(s, k, h)) - CountRuns(s, LeftEnd(s, k, h) - 1)

\* skimage.morphology.area_opening(image, area_threshold): a max-tree node is
\* kept when its area is not below the threshold ("attribute < threshold"
\* flattens it to its parent's output); a root whose area is below the
\* threshold is written as 0, and every pixel then inherits that 0.
OpenedValue(s, k, area) ==
    LET kept == {h \in Levels(s) :
                    h <= s[k].v /\ ~RLess(Num(CompArea(s, k, h)), area)}
    IN  IF kept = {} THEN 0 ELSE MaxOf(kept)

AreaOpening(s, area) ==
    [k \in 1..Len(s) |-> [v |-> OpenedValue(s, k, area), n |-> s[k].n]]

\* skimage.transform.rescale(img, scale): the output has
\* max(round(scale * size), 1) pixels along each axis (one row stays one row
\* for the scales used here) and interpolated values, which stay within the
\* input's range.  The set of images it may return.
RescaledCount(s, sc) == MaxOf({1, RoundHalfEven(sc.n * ImgCount(s), sc.d)})
Rescale(s, sc) ==
    AnyImage(RescaledCount(s, sc), MinOf(Levels(s)), MaxOf(Levels(s)))

\* img - rolling_ball(img, radius=r): the estimated background never exceeds
\* the image, so the difference is a non-negative image of the same shape.
\* The set of images remove_background may return.
BackgroundRemoved(s) == AnyImage(ImgCount(s), 0, MaxOf(PixVals))

\* ------------------------------------------------------ calc_size_spectrum
\* a range that takes its stop value too
RECURSIVE PyRangeInclusive(_, _, _)
PyRangeInclusive(cur, stop, st) ==
    IF (st > 0 /\ cur <= stop) \/ (st < 0 /\ cur >= stop)
    THEN <<cur>> \o PyRangeInclusive(cur + st, stop, st)
    ELSE <<>>

\* list(range(start, stop, step)) for step # 0
RECURSIVE PyRange(_, _, _)
PyRange(cur, stop, st) ==
    IF (st > 0 /\ cur < stop) \/ (st < 0 /\ cur > stop)
    THEN <<cur>> \o PyRange(cur + st, stop, st)
    ELSE <<>>

\* diams = [1] + list(range(step, end, step)), as floats
DiamList(st, en) ==
    LET l == <<1>> \o PyRange(st, en, st)
    IN  [k \in 1..Len(l) |-> Num(l[k])]

\* diams *= scale
ScaleDiams(ds, sc) == [k \in 1..Len(ds) |-> RMul(ds[k], sc)]
\* diams /= scale
UnscaleDiams(ds, sc) == [k \in 1..Len(ds) |-> RDiv(ds[k], sc)]

\* the area with the diameter taken for the radius
AreaOfRadius(dm) == RMul(Pi, RMul(dm, dm))

\* area = np.pi * (d / 2) ** 2
AreaOf(dm) == RMul(Pi, RMul(RDiv(dm, Num(2)), RDiv(dm, Num(2))))

\* gs = gs / sum0 * 100.0
Percent(g, s0) ==
    [k \in 1..Len(g) |-> RMul(RDiv(g[k], Num(s0)), Num(100))]

\* np.trapz(y, x=x)
RECURSIVE TrapzUpTo(_, _, _)
TrapzUpTo(y, x, k) ==
    IF k <= 1 THEN Num(0)
    ELSE RAdd(TrapzUpTo(y, x, k - 1),
              RDiv(RMul(RSub(x[k], x[k - 1]), RAdd(y[k], y[k - 1])), Num(2)))
Trapz(y, x) == TrapzUpTo(y, x, Len(y))

\* the scaling without the division by the integral
ScaleByMeanOnly(g, zz, om) == [k \in 1..Len(g) |-> RMul(om, g[k])]

\* norm_gs = origmean * (gs / z)
ScaleByMean(g, zz, om) == [k \in 1..Len(g) |-> RMul(om, RDiv(g[k], zz))]

\* ------------------------------------------------------------------ inputs
Images ==
    UNION {AnyImage(w, MinOf(PixVals), MaxOf(PixVals)) : w \in 1..MaxPixels}
\* 1/4 is the default; 5/4 enlarges (one row stays one row below 3/2)
Scales == {Norm(1, 4), Norm(1, 2), Num(1), Norm(5, 4)}
Steps == (0 - 1)..MaxStep
Ends == 2..MaxEnd
BgDiams == (0 - 1)..1

\* the flat-image scenario: 100 x 100 pixels of value 10, scale 1, step 5,
\* end 20, no background removal
FlatImage == <<[v |-> 10, n |-> 100 * 100]>>
FlatCall ==
    [image |-> FlatImage, scale |-> Num(1), step |-> 5, end |-> 20, bg_diam |-> 0]

\* the calls made: no image, rescaled or not, is wider than MaxPixels
Calls ==
    {c \in [image : Images, scale : Scales, step : Steps, end : Ends,
            bg_diam : BgDiams] : RescaledCount(c.image, c.scale) <= MaxPixels}
        \cup {FlatCall}

\* ------------------------------------------------------------------- state
VARIABLES
    pc,        \* position in the function being run
    image,     \* the caller's array
    scale, step, end, bg_diam,   \* arguments of calc_size_spectrum
    d,         \* argument of a direct remove_background call
    img,       \* the local img (reassigned by rescale and remove_background)
    diams, origmean, Nsteps, gs, sum0, curint, prevint, i, wrk, z, norm_gs,
    ran,       \* the image steps executed so far, in order
    radii,     \* the radius of every rolling_ball call made
    err        \* the exception that ended the call, "" if none

vars == <<pc, image, scale, step, end, bg_diam, d, img, diams, origmean, Nsteps,
          gs, sum0, curint, prevint, i, wrk, z, norm_gs, ran, radii, err>>

args == <<image, scale, step, end, bg_diam, d>>
sweepVars == <<Nsteps, gs, sum0, curint, prevint, i, wrk>>
resultVars == <<z, norm_gs>>

Init ==
    /\ pc = "idle"
    /\ image = <<>> /\ scale = Num(1) /\ step = 0 /\ end = 0 /\ bg_diam = 0
    /\ d = 0
    /\ img = <<>> /\ diams = <<>> /\ origmean = NaN
    /\ Nsteps = 0 /\ gs = <<>> /\ sum0 = 0 /\ curint = 0 /\ prevint = 0 /\ i = 0
    /\ wrk = <<>> /\ z = NaN /\ norm_gs = <<>>
    /\ ran = <<>> /\ radii = <<>> /\ err = ""

\* a caller invokes calc_size_spectrum(img, scale, step, end, bg_diam)
CallCalc ==
    /\ pc = "idle"
    /\ \E c \in Calls :
        /\ image' = c.image /\ img' = c.image
        /\ scale' = c.scale /\ step' = c.step /\ end' = c.end
        /\ bg_diam' = c.bg_diam
    /\ pc' = "diams"
    /\ UNCHANGED <<d, diams, origmean, sweepVars, resultVars, ran, radii, err>>

\* lines 66-72: the diameter list.  range() raises ValueError for step 0.
BuildDiams ==
    /\ pc = "diams"
    /\ IF step = 0
       THEN /\ pc' = "raised" /\ err' = "ValueError"
            /\ UNCHANGED diams
       ELSE /\ diams' = ScaleDiams(DiamList(step, end), scale)
            /\ pc' = "mean"
            /\ UNCHANGED err
    /\ UNCHANGED <<args, img, origmean, sweepVars, resultVars, ran, radii>>

\* lines 75-76: img.astype(float), origmean = img.mean()
ConvertMean ==
    /\ pc = "mean"
    /\ origmean' = ImgMean(img)
    /\ ran' = Append(ran, "mean")
    /\ pc' = "rescale"
    /\ UNCHANGED <<args, img, diams, sweepVars, resultVars, radii, err>>

\* lines 78-79: if scale != 1.0: img = rescale(img, scale)
RescaleStep ==
    /\ pc = "rescale"
    /\ IF scale # Num(1)
       THEN /\ img' \in Rescale(img, scale)
            /\ ran' = Append(ran, "rescale")
       ELSE UNCHANGED <<img, ran>>
    /\ pc' = "bg"
    /\ UNCHANGED <<args, diams, origmean, sweepVars, resultVars, radii, err>>

\* lines 81-82: if bg_diam > 0: img = remove_background(img, d=bg_diam * scale)
\* with remove_background's body (lines 18-20) run in place
BackgroundStep ==
    /\ pc = "bg"
    /\ IF bg_diam > 0
       THEN /\ img' \in BackgroundRemoved(img)
            /\ radii' = Append(radii, RDiv(RMul(Num(bg_diam), scale), Num(2)))
            /\ ran' = Append(ran, "rolling_ball")
       ELSE UNCHANGED <<img, radii, ran>>
    /\ pc' = "init"
    /\ UNCHANGED <<args, diams, origmean, sweepVars, resultVars, err>>

\* lines 85-91: Nsteps, gs = zeros, sum0 = img.sum(), curint = sum0
SweepInit ==
    /\ pc = "init"
    /\ Nsteps' = Len(diams)
    /\ gs' = [k \in 1..Len(diams) |-> Num(0)]
    /\ sum0' = ImgSum(img)
    /\ curint' = ImgSum(img)
    /\ i' = 0
    /\ pc' = "sweep"
    /\ UNCHANGED <<args, img, diams, origmean, prevint, wrk, resultVars, ran,
                   radii, err>>

\* the loss taken from the initial total instead of the previous sum
IntensityLossFromTotal(prev, cur) == Num(sum0 - cur)

\* line 98: gs[i] = prevint - curint
IntensityLoss(prev, cur) == Num(prev - cur)

\* lines 93-98: one iteration of the loop over enumerate(diams)
SweepStep ==
    /\ pc = "sweep"
    /\ i < Len(diams)
    /\ LET opened == AreaOpening(img, AreaOf(diams[i + 1]))
       IN  /\ prevint' = curint
           /\ wrk' = opened
           /\ curint' = ImgSum(opened)
           /\ gs' = [gs EXCEPT ![i + 1] = IntensityLoss(curint, ImgSum(opened))]
    /\ i' = i + 1
    /\ ran' = Append(ran, "area_opening")
    /\ UNCHANGED <<pc, args, img, diams, origmean, Nsteps, sum0, resultVars,
                   radii, err>>

\* lines 101-111: normalise, scale the diameters back, integrate, return
Normalize ==
    /\ pc = "sweep"
    /\ i = Len(diams)
    /\ LET pct == Percent(gs, sum0)
           back == UnscaleDiams(diams, scale)
           zz == Trapz(pct, back)
       IN  /\ gs' = pct
           /\ diams' = back
           /\ z' = zz
           /\ norm_gs' = ScaleByMean(pct, zz, origmean)
    /\ pc' = "done"
    /\ UNCHANGED <<args, img, origmean, Nsteps, sum0, curint, prevint, i, wrk,
                   ran, radii, err>>

\* a caller invokes remove_background(img, d) directly (lines 18-20)
CallRemoveBackground ==
    /\ pc = "idle"
    /\ \E im \in Images, dd \in BgDiams :
        /\ image' = im /\ d' = dd
        /\ img' \in BackgroundRemoved(im)
        /\ radii' = Append(radii, RDiv(Num(dd), Num(2)))
    /\ ran' = Append(ran, "rolling_ball")
    /\ pc' = "rb_done"
    /\ UNCHANGED <<scale, step, end, bg_diam, diams, origmean, sweepVars,
                   resultVars, err>>

Next ==
    \/ CallCalc
    \/ BuildDiams
    \/ ConvertMean
    \/ RescaleStep
    \/ BackgroundStep
    \/ SweepInit
    \/ SweepStep
    \/ Normalize
    \/ CallRemoveBackground

Spec == Init /\ [][Next]_vars

\* ------------------------------------------------------------ vocabulary
Returned == pc = "done"
Raised == pc = "raised"
\* calc_size_spectrum has got past the construction of the diameter list
Computing == pc \in {"mean", "rescale", "bg", "init", "sweep", "done"}
Sweeping == pc = "sweep"
SweepOver == pc = "sweep" /\ i = Len(diams)

ScalePositive == scale.n > 0
ScaleAtMostOne == scale.n > 0 /\ scale.n <= scale.d
InvalidParameters == scale.n <= 0 \/ step <= 0 \/ end <= step
ValidStepEnd == step > 0 /\ end > step

\* S(k): the sum of the opening of the current img at the k-th diameter;
\* S(0) is the sum of img itself
OpenedSum(k) ==
    IF k = 0 THEN ImgSum(img) ELSE ImgSum(AreaOpening(img, AreaOf(diams[k])))

AreasAscend ==
    \A k \in 1..(Len(diams) - 1) : ~RLess(AreaOf(diams[k + 1]), AreaOf(diams[k]))

\* --------------------------------------------------------------- claims

\* C1: a call with scale <= 0, step <= 0 or end <= step ends in an error and
\* no image step (mean, rescale, rolling ball, area opening) runs before it.
\* Stated as claimed; the code validates nothing.
C1_InvalidParametersRejectedFirst ==
    (InvalidParameters /\ (Computing \/ Raised)) => (ran = <<>> /\ ~Returned)

\* C2: calc_size_spectrum never returns a spectrum holding NaN or Inf: with
\* sum0 = 0 or z = 0 the call fails instead of returning.  Stated as claimed
\* (for calls with valid parameters); the code divides and returns.
C2_DegenerateImageNeverReturned ==
    (Returned /\ ~InvalidParameters) =>
        /\ sum0 # 0
        /\ IsNum(z) /\ z.n # 0
        /\ \A k \in 1..Len(norm_gs) : IsNum(norm_gs[k])

\* C3 as claimed: for step > 0 and end > step the returned sequences have
\* length 1 + floor((end - 2) / step).
C3_LengthAsClaimed ==
    (Returned /\ ValidStepEnd) =>
        /\ Len(diams) = 1 + ((end - 2) \div step)
        /\ Len(norm_gs) = 1 + ((end - 2) \div step)

\* C3 amended: for step > 0 and end > step the returned diameter sequence and
\* spectrum have length 1 + floor((end - 1) / step).
C3_SpectrumLength ==
    (Returned /\ ValidStepEnd) =>
        /\ Len(diams) = 1 + ((end - 1) \div step)
        /\ Len(norm_gs) = 1 + ((end - 1) \div step)

C3_Witness ==
    /\ Returned /\ ValidStepEnd
    /\ (end - 1) % step = 0
    /\ step > 1
    /\ Len(norm_gs) = 1 + ((end - 1) \div step)

\* C4: for step > 0, end > step and scale > 0 the returned diameters are
\* strictly increasing and positive, start at 1, continue with step, 2*step,
\* ... below end, and hold no value twice.  Stated as claimed; step = 1
\* yields 1 twice.
C4_DiametersStrictlyIncreasing ==
    (Returned /\ ValidStepEnd /\ ScalePositive) =>
        /\ diams[1] = Num(1)
        /\ \A k \in 2..Len(diams) :
              diams[k] = Num((k - 1) * step) /\ (k - 1) * step < end
        /\ \A k \in 1..(Len(diams) - 1) : RLess(diams[k], diams[k + 1])

\* C5: with the area thresholds visited in increasing order, every raw
\* intensity loss gs[i] written by the sweep is >= 0.  Stated as claimed;
\* an opening whose threshold exceeds the pixel count of a negative image
\* raises its sum to 0.
C5_IntensityLossNonNegative ==
    (Sweeping /\ ~InvalidParameters /\ AreasAscend) =>
        \A k \in 1..i : gs[k].n >= 0

\* C6: when the call returns with sum0 # 0 and z a nonzero number, the
\* trapezoidal integral of the returned spectrum over the returned
\* diameters equals origmean, the mean of the original image.
C6_AreaUnderSpectrumIsOrigmean ==
    (Returned /\ sum0 # 0 /\ IsNum(z) /\ z.n # 0) =>
        /\ Trapz(norm_gs, diams) = origmean
        /\ origmean = ImgMean(image)

C6_Witness ==
    /\ Returned /\ sum0 # 0 /\ IsNum(z) /\ z.n # 0
    /\ scale # Num(1) /\ bg_diam > 0
    /\ origmean.n # 0 /\ z # Num(1)
    /\ Trapz(norm_gs, diams) = origmean

\* C7: a non-positive background size is a bypass: remove_background(img, d)
\* with d <= 0 returns img without running the rolling ball, and
\* calc_size_spectrum with bg_diam <= 0 runs no rolling ball either.  Stated
\* as claimed; remove_background has no such guard.
C7_NonPositiveDiameterIsBypass ==
    /\ (pc = "rb_done" /\ d <= 0) => (img = image /\ radii = <<>>)
    /\ (Computing /\ bg_diam <= 0) => radii = <<>>
    /\ \A k \in 1..Len(radii) : RLess(Num(0), radii[k])

\* C8: every raw entry the sweep has written is S(k-1) - S(k), the sums of
\* openings of the one background-corrected image at the (k-1)-th and k-th
\* diameter (S(0) = sum0), stored at the diameter's own index; the entries
\* not yet reached are still 0.
C8_LossIsDifferenceOfIndependentOpenings ==
    Sweeping =>
        /\ sum0 = ImgSum(img)
        /\ Len(gs) = Len(diams)
        /\ \A k \in 1..i : gs[k] = Num(OpenedSum(k - 1) - OpenedSum(k))
        /\ \A k \in (i + 1)..Len(gs) : gs[k] = Num(0)
        /\ i > 0 => (curint = OpenedSum(i) /\ prevint = OpenedSum(i - 1))

C8_Witness ==
    /\ SweepOver /\ i >= 2
    /\ \E k \in 2..i : gs[k].n # 0 /\ OpenedSum(k - 1) # OpenedSum(0)

\* C9: the flat 100 x 100 image of value 10 with scale 1, step 5, end 20 and
\* no background removal returns the diameters [1, 5, 10, 15] and a spectrum
\* that is 0 at each of them.  Stated as claimed; the code returns NaN.
C9_FlatImageSpectrumIsZero ==
    (Returned /\ image = FlatImage /\ scale = Num(1) /\ step = 5 /\ end = 20
        /\ bg_diam = 0) =>
        /\ diams = <<Num(1), Num(5), Num(10), Num(15)>>
        /\ norm_gs = <<Num(0), Num(0), Num(0), Num(0)>>

\* C10: for 0 < scale <= 1 the first opening is the identity (its area
\* pi * (scale/2)^2 is below one pixel), so curint = sum0 after it and the
\* raw gs[0] is 0.
C10_FirstEntryCarriesNoLoss ==
    (Sweeping /\ i >= 1 /\ ScaleAtMostOne) =>
        /\ RLess(AreaOf(diams[1]), Num(1))
        /\ gs[1] = Num(0)
        /\ i = 1 => (wrk = img /\ curint = sum0)

C10_Witness ==
    /\ SweepOver /\ ScaleAtMostOne
    /\ gs[1] = Num(0)
    /\ \E k \in 2..i : gs[k].n > 0

====
